---- MODULE Spec2Model ----
(***************************************************************************)
(* A model of libc-print (src/src/lib.rs): the raw write primitive         *)
(* libc_write, the retrying sink __libc_println, the sink instance         *)
(* __LibCWriter (write_fmt / write_str / write_nl) and the call shapes     *)
(* libc_print!, libc_println!, libc_eprint!, libc_eprintln!, libc_write!,  *)
(* libc_ewrite!, libc_writeln!, libc_ewriteln! and libc_dbg!.              *)
(*                                                                         *)
(* A byte is a one-character string, a byte slice a sequence of bytes.     *)
(* The operating system's write(2) and the formatting engine of core::fmt  *)
(* are the environment: write(2) is a nondeterministic choice of a result, *)
(* the engine hands the fragments of a template to the sink one by one and *)
(* stops at the first fragment whose write_str returns an error.           *)
(***************************************************************************)
EXTENDS Integers, Sequences, FiniteSets, TLC

VARIABLES
    policy,     \* how write(2) behaves in this behaviour (environment)
    platform,   \* the target the crate is built for: "unix" or "windows"
    faults,     \* "no progress" results write(2) has given so far
    partials,   \* short writes write(2) has given so far
    stream,     \* descriptor -> the bytes the OS accepted, each with its caller
    oscalls,    \* the log of the write(2) calls, in the order they were issued
    pc,         \* thread -> position in the program
    call,       \* thread -> the macro invocation it runs
    todo,       \* thread -> the statements of the expansion still to run
    stm,        \* thread -> the sink instance (its handle), 0 before `new`
    fmtq,       \* thread -> the fragments write_fmt has still to hand over
    fmtres,     \* thread -> the results write_fmt returned, in order
    msg,        \* thread -> __libc_println: the slice `msg`
    written,    \* thread -> __libc_println: the cursor `written`
    caller,     \* thread -> who called __libc_println: "fmt" or "macro"
    sinks,      \* thread -> the calls of __libc_println so far, each with its
                \*           write(2) calls and its result
    tmp,        \* thread -> libc_dbg!: the value bound by `match $val`
    evals,      \* thread -> libc_dbg!: the expressions evaluated, in order
    yielded     \* thread -> libc_dbg!: the values yielded, in order

vars == <<policy, platform, faults, partials, stream, oscalls, pc, call, todo, stm,
          fmtq, fmtres, msg, written, caller, sinks, tmp, evals, yielded>>

-----------------------------------------------------------------------------
(* Bounds of the model.                                                    *)

\* longest string or template explored when write(2) is free to fail
MaxShort == 3
\* longest slice explored when write(2) accepts a fixed chunk per call
MaxLong == 15
\* largest chunk size of a fixed-chunk write(2)
MaxChunk == 7
\* "no progress" results a free write(2) may give in one behaviour
MaxFaults == 1
\* short writes a free write(2) may give in one behaviour
MaxPartials == 1
\* the most bytes a misreporting write(2) reports beyond those requested
MaxOver == 2
\* width in bits of the count of write(2) where it is narrower than usize
\* (32 on windows; narrow here so that slices longer than its maximum occur)
CUintBits == 2

-----------------------------------------------------------------------------
(* Constants of the program.                                               *)
\* a newline sequence of two bytes
NewlineCrLf == <<"\r", "\n">>

\* the constants the macros use
__LIBC_NEWLINE == <<"\n">>
__LIBC_STDOUT == 1
__LIBC_STDERR == 2

\* the threads of the program; the first is the one that runs alone
Threads == {1, 2}
MainThread == 1

\* libc::c_uint::MAX
C_UINT_MAX == 2^CUintBits - 1
Fds == {__LIBC_STDOUT, __LIBC_STDERR}

\* Option<usize>: None is the empty sequence, Some(n) is <<n>>
None == <<>>
Some(n) == <<n>>

Min(a, b) == IF a < b THEN a ELSE b

-----------------------------------------------------------------------------
(* Values and their formatting (core::fmt, as the macros use it).          *)

StrVal(s) == [kind |-> "str", s |-> s, n |-> 0]
IntVal(n) == [kind |-> "int", s |-> <<>>, n |-> n]
TmpRef == [kind |-> "tmp", s |-> <<>>, n |-> 0]

\* `$name!()` in a macro body whose rule binds no `$name`: the transcriber
\* leaves the two tokens `$` `name` as they are, and they are no expression
DollarTok(name) == [kind |-> "dollar", s |-> name, n |-> 0]

DigitChars == <<"0", "1", "2", "3", "4", "5", "6", "7", "8", "9">>

RECURSIVE Decimal(_)
Decimal(n) ==
    IF n < 10 THEN <<DigitChars[n + 1]>>
    ELSE Decimal(n \div 10) \o <<DigitChars[(n % 10) + 1]>>

\* The write_str calls Display makes for a value: a string is written whole,
\* an integer as its sign (write_char) and then its digits.
DisplayFrags(v) ==
    IF v.kind = "str" THEN <<v.s>>
    ELSE IF v.n < 0 THEN <<<<"-">>, Decimal(-v.n)>>
    ELSE <<Decimal(v.n)>>

\* {:#?}: the alternate flag makes pad_integral write the (empty) prefix too.
PrettyFrags(v) ==
    IF v.kind = "str" THEN <<<<"\"">>, v.s, <<"\"">>>>
    ELSE IF v.n < 0 THEN <<<<"-">>, <<>>, Decimal(-v.n)>>
    ELSE <<<<>>, Decimal(v.n)>>

\* A format specification between braces: "" (Display) or ":#?" (pretty Debug).
SpecDisplay == <<>>
SpecPretty == <<":", "#", "?">>

\* index of the first "}" of tpl at or after i, 0 when there is none
RECURSIVE CloseAt(_, _)
CloseAt(tpl, i) ==
    IF i > Len(tpl) THEN 0
    ELSE IF tpl[i] = "}" THEN i
    ELSE CloseAt(tpl, i + 1)

\* format_args!: the template parsed from position i on, `lit` being the
\* literal text collected since the last placeholder and k the next argument.
\* "{{" and "}}" are the escapes of one brace. The result is the sequence of
\* pieces: a literal [lit] or a placeholder [arg, pretty].
RECURSIVE ParseFrom(_, _, _, _)
ParseFrom(tpl, i, lit, k) ==
    LET flush == IF lit = <<>> THEN <<>> ELSE <<[isarg |-> FALSE, lit |-> lit, arg |-> 0, pretty |-> FALSE]>>
    IN
    IF i > Len(tpl) THEN flush
    ELSE IF tpl[i] = "{" /\ i < Len(tpl) /\ tpl[i + 1] = "{"
        THEN ParseFrom(tpl, i + 2, Append(lit, "{"), k)
    ELSE IF tpl[i] = "}"
        THEN ParseFrom(tpl, i + 2, Append(lit, "}"), k)
    ELSE IF tpl[i] = "{"
        THEN LET j == CloseAt(tpl, i)
             IN flush
                \o <<[isarg |-> TRUE, lit |-> <<>>, arg |-> k,
                      pretty |-> (SubSeq(tpl, i + 1, j - 1) = SpecPretty)]>>
                \o ParseFrom(tpl, j + 1, <<>>, k + 1)
    ELSE ParseFrom(tpl, i + 1, Append(lit, tpl[i]), k)

\* whether format_args! accepts the template (it is a compile error otherwise)
RECURSIVE ValidFrom(_, _)
ValidFrom(tpl, i) ==
    IF i > Len(tpl) THEN TRUE
    ELSE IF tpl[i] = "{" /\ i < Len(tpl) /\ tpl[i + 1] = "{" THEN ValidFrom(tpl, i + 2)
    ELSE IF tpl[i] = "}"
        THEN i < Len(tpl) /\ tpl[i + 1] = "}" /\ ValidFrom(tpl, i + 2)
    ELSE IF tpl[i] = "{"
        THEN LET j == CloseAt(tpl, i)
             IN /\ j > 0
                /\ SubSeq(tpl, i + 1, j - 1) \in {SpecDisplay, SpecPretty}
                /\ ValidFrom(tpl, j + 1)
    ELSE ValidFrom(tpl, i + 1)

IsTemplate(tpl) == ValidFrom(tpl, 1)

\* a parse that starts one byte late
PiecesFromSecond(tpl) == ParseFrom(tpl, 2, <<>>, 1)

Pieces(tpl) == ParseFrom(tpl, 1, <<>>, 1)

NumArgs(tpl) == Len(SelectSeq(Pieces(tpl), LAMBDA p : p.isarg))

\* The fragments the engine hands to write_str for a template and its
\* arguments, in order: each non-empty literal piece, and what each
\* argument's formatter writes.
RECURSIVE FragsOf(_, _)
FragsOf(pieces, args) ==
    IF pieces = <<>> THEN <<>>
    ELSE LET p == Head(pieces)
         IN (IF ~p.isarg THEN <<p.lit>>
             ELSE IF p.pretty THEN PrettyFrags(args[p.arg])
             ELSE DisplayFrags(args[p.arg]))
            \o FragsOf(Tail(pieces), args)

format_args(tpl, args) == FragsOf(Pieces(tpl), args)

-----------------------------------------------------------------------------
(* The inputs explored.                                                    *)

\* the bytes of the short strings: plain text, and templates with braces
TextBytes == {"a", "b"}
TemplateBytes == {"a", "{", "}"}

RECURSIVE SeqsUpTo(_, _)
SeqsUpTo(S, n) ==
    IF n = 0 THEN {<<>>}
    ELSE LET shorter == SeqsUpTo(S, n - 1)
         IN shorter \cup {Append(s, x) : s \in {q \in shorter : Len(q) = n - 1}, x \in S}

ShortStrs == SeqsUpTo(TextBytes, MaxShort) \cup SeqsUpTo(TemplateBytes, MaxShort)

Letters == <<"a", "b", "c", "d", "e", "f", "g", "h", "i", "j", "k", "l", "m",
             "n", "o", "p", "q", "r", "s", "t", "u", "v", "w", "x", "y", "z">>

LongStr(n) == [i \in 1..n |-> Letters[((i - 1) % 26) + 1]]
LongStrs == {LongStr(n) : n \in 0..MaxLong}

FreePolicy == [kind |-> "free", k |-> 0]
ChunkPolicy(k) == [kind |-> "chunk", k |-> k]
Policies == {FreePolicy} \cup {ChunkPolicy(k) : k \in 1..MaxChunk}

\* a write(2) that breaks its contract: it reports k bytes more than it was
\* asked to write
OverPolicy(k) == [kind |-> "over", k |-> k]
OverPolicies == {OverPolicy(k) : k \in 1..MaxOver}

Strs(p) == IF p.kind = "free" THEN ShortStrs ELSE LongStrs

ArgValues == {StrVal(<<>>), StrVal(<<"b">>), IntVal(-1), IntVal(12)}

\* An expression handed to libc_dbg!: its source text and the value it has.
ExprX == [text |-> <<"x">>, val |-> IntVal(4)]
ExprY == [text |-> <<"-", "y">>, val |-> IntVal(-1)]
Exprs == {ExprX, ExprY}

\* file!() and line!() of the call site
File == <<"m">>
Line == IntVal(7)

\* the argument lists of libc_dbg!: one expression, a pair and, when write(2)
\* accepts a fixed chunk, any two or three
DbgArgs(p) ==
    {<<e>> : e \in Exprs}
    \cup {<<ExprX, ExprY>>}
    \cup (IF p.kind = "chunk"
          THEN {<<e, f>> : e \in Exprs, f \in Exprs}
               \cup {<<e, f, g>> : e \in Exprs, f \in Exprs, g \in Exprs}
          ELSE {})

FmtShapes == {"libc_print", "libc_println", "libc_eprint", "libc_eprintln"}
StrShapes == {"libc_write", "libc_ewrite", "libc_writeln", "libc_ewriteln"}
NlShapes == {"libc_println", "libc_eprintln", "libc_writeln", "libc_ewriteln"}
OutShapes == {"libc_print", "libc_println", "libc_write", "libc_writeln"}
ErrShapes == {"libc_eprint", "libc_eprintln", "libc_ewrite", "libc_ewriteln", "libc_dbg"}

\* A macro invocation: form "empty" is the invocation without arguments.
Call(shape, form, tpl, args, s, exprs) ==
    [shape |-> shape, form |-> form, tpl |-> tpl, args |-> args, s |-> s, exprs |-> exprs]

NoCall == Call("none", "empty", <<>>, <<>>, <<>>, <<>>)

FmtCalls(p) ==
    {Call(sh, "args", tpl, args, <<>>, <<>>) :
        sh \in FmtShapes,
        tpl \in {x \in Strs(p) : IsTemplate(x)},
        args \in UNION {[1..n -> ArgValues] : n \in 0..MaxShort}}

Calls(p) ==
    {c \in FmtCalls(p) : Len(c.args) = NumArgs(c.tpl)}
    \cup {Call(sh, "empty", <<>>, <<>>, <<>>, <<>>) : sh \in {"libc_println", "libc_eprintln"}}
    \cup {Call(sh, "args", <<>>, <<>>, s, <<>>) : sh \in StrShapes, s \in Strs(p)}
    \cup {Call("libc_dbg", "args", <<>>, <<>>, <<>>, es) : es \in DbgArgs(p)}
    \cup {Call("libc_dbg", "empty", <<>>, <<>>, <<>>, <<>>)}

\* the calls of the two threads of the concurrent program
ConcStrs == {<<"a", "b">>, <<"c">>}
ConcCalls ==
    {Call(sh, "args", <<>>, <<>>, s, <<>>) : sh \in {"libc_write", "libc_writeln"}, s \in ConcStrs}
    \cup {Call("libc_println", "args", s, <<>>, <<>>, <<>>) : s \in ConcStrs}

-----------------------------------------------------------------------------
(* The macros: each call shape expands to a sequence of statements.        *)

Stmt(op, h, tpl, args, s, e) ==
    [op |-> op, h |-> h, tpl |-> tpl, args |-> args, s |-> s, e |-> e]

StNew(h) == Stmt("new", h, <<>>, <<>>, <<>>, <<>>)
StFmt(tpl, args) == Stmt("write_fmt", 0, tpl, args, <<>>, <<>>)
StStr(s) == Stmt("write_str", 0, <<>>, <<>>, s, <<>>)
StNl == Stmt("write_nl", 0, <<>>, <<>>, <<>>, <<>>)
StEval(e) == Stmt("eval", 0, <<>>, <<>>, <<>>, <<e>>)
StYield == Stmt("yield", 0, <<>>, <<>>, <<>>, <<>>)

\* every call shape on the output stream
HandleAlwaysStdout(shape) == __LIBC_STDOUT

\* the stream a call shape names in `__LibCWriter::new(...)`
HandleOf(shape) == IF shape \in OutShapes THEN __LIBC_STDOUT ELSE __LIBC_STDERR

\* whether the expansion of a call shape ends with `stm.write_nl()`
HasNl(shape) == shape \in NlShapes

\* "[{}:{}] {} = {:#?}"
DbgTemplate ==
    <<"[", "{", "}", ":", "{", "}", "]", " ", "{", "}", " ", "=", " ",
      "{", ":", "#", "?", "}">>

\* "[{}:{}]"
DbgNoneTemplate == <<"[", "{", "}", ":", "{", "}", "]">>

\* libc_print!, libc_println!, libc_eprint!, libc_eprintln! with arguments
ExpandFmt(shape, tpl, args) ==
    <<StNew(HandleOf(shape)), StFmt(tpl, args)>>
    \o (IF HasNl(shape) THEN <<StNl>> ELSE <<>>)

\* libc_write!, libc_ewrite!, libc_writeln!, libc_ewriteln!
ExpandStr(shape, s) ==
    <<StNew(HandleOf(shape)), StStr(s)>>
    \o (IF HasNl(shape) THEN <<StNl>> ELSE <<>>)

\* an expansion that uses `$val` again for the block's value
ExpandDbgOneTwice(e) ==
    <<StEval(e)>>
    \o ExpandFmt("libc_eprintln", DbgTemplate,
                 <<StrVal(File), Line, StrVal(e.text), TmpRef>>)
    \o <<StEval(e), StYield>>

\* libc_dbg!(val): match $val { tmp => { libc_eprintln!(...); tmp } }
ExpandDbgOne(e) ==
    <<StEval(e)>>
    \o ExpandFmt("libc_eprintln", DbgTemplate,
                 <<StrVal(File), Line, StrVal(e.text), TmpRef>>)
    \o <<StYield>>

\* an expansion that runs the last expression first
RECURSIVE ExpandDbgReversed(_)
ExpandDbgReversed(es) ==
    IF es = <<>> THEN <<>>
    ELSE ExpandDbgReversed(Tail(es)) \o ExpandDbgOne(Head(es))

\* libc_dbg!(v1, ..., vn): ($(libc_dbg!($val)),+,)
RECURSIVE ExpandDbg(_)
ExpandDbg(es) ==
    IF es = <<>> THEN <<>>
    ELSE ExpandDbgOne(Head(es)) \o ExpandDbg(Tail(es))

\* libc_dbg!(): libc_eprintln!("[{}:{}]", $file!(), $line!())
ExpandDbgNone ==
    ExpandFmt("libc_eprintln", DbgNoneTemplate,
              <<DollarTok(<<"f", "i", "l", "e">>), DollarTok(<<"l", "i", "n", "e">>)>>)

Expand(c) ==
    IF c.shape = "libc_dbg" /\ c.form = "empty" THEN ExpandDbgNone
    ELSE IF c.shape = "libc_dbg" THEN ExpandDbg(c.exprs)
    ELSE IF c.shape \in StrShapes THEN ExpandStr(c.shape, c.s)
    ELSE IF c.form = "empty" THEN ExpandFmt(c.shape, <<>>, <<>>)
    ELSE ExpandFmt(c.shape, c.tpl, c.args)

\* format_args! takes expressions after the template: an expansion that
\* hands it anything else is a compile error at the call site
Compiles(stmts) ==
    \A i \in 1..Len(stmts) : \A j \in 1..Len(stmts[i].args) :
        stmts[i].args[j].kind # "dollar"

-----------------------------------------------------------------------------
(* The operating system's write(2).                                        *)

\* the results write(2) may give to a request of `count` bytes
OsRets(count) ==
    IF policy.kind = "chunk" THEN {Min(count, policy.k)}
    ELSE IF policy.kind = "over" THEN {count + policy.k}
    ELSE {count}
         \cup (IF faults < MaxFaults THEN {-1, 0} ELSE {})
         \cup (IF partials < MaxPartials THEN 1..(count - 1) ELSE {})

\* bytes on a stream, each with the thread and the sink call it came from
Tagged(bytes, t, inv) ==
    [i \in 1..Len(bytes) |-> [b |-> bytes[i], by |-> t, inv |-> inv]]

Bytes(tagged) == [i \in 1..Len(tagged) |-> tagged[i].b]

\* one call write(fd, buf, count) that returned r, made by the inv-th sink
\* call of thread t
OsCall(t, inv, fd, buf, count, r) ==
    [by |-> t, inv |-> inv, fd |-> fd, buf |-> buf, count |-> count, ret |-> r]

\* write(fd, buf, count) returning r: the first r bytes of buf reach fd (all
\* of buf when r is more than it holds)
OsWrite(t, inv, fd, buf, count, r) ==
    /\ oscalls' = Append(oscalls, OsCall(t, inv, fd, buf, count, r))
    /\ stream' = IF r > 0
                 THEN [stream EXCEPT ![fd] =
                         @ \o Tagged(SubSeq(buf, 1, Min(r, Len(buf))), t, inv)]
                 ELSE stream
    /\ faults' = IF r <= 0 /\ count > 0 THEN faults + 1 ELSE faults
    /\ partials' = IF 0 < r /\ r < count /\ policy.kind = "free"
                   THEN partials + 1 ELSE partials

-----------------------------------------------------------------------------
(* libc_write and __libc_println.                                          *)

\* a count converted by truncation: `bytes.len() as c_uint`
CountArgWrapped(bytes) ==
    IF platform = "windows" THEN Len(bytes) % (2^CUintBits) ELSE Len(bytes)

\* the count handed to write(2): bytes.len(), and on windows
\* c_uint::try_from(bytes.len()).unwrap_or(c_uint::MAX)
CountArg(bytes) ==
    IF platform = "windows"
    THEN (IF Len(bytes) <= C_UINT_MAX THEN Len(bytes) ELSE C_UINT_MAX)
    ELSE Len(bytes)

\* a conversion that wraps a negative result to a large count, as the cast
\* `ret as usize` does
libc_write_cast(ret) == Some(IF ret < 0 THEN ret + 2^30 ELSE ret)

\* usize::try_from(ret).ok()
libc_write(ret) == IF ret < 0 THEN None ELSE Some(ret)

\* a sink that hands the whole slice to every call
SuffixWhole(m, w) == m

\* &msg[written..]
Suffix(m, w) == SubSeq(m, w + 1, Len(m))

\* a match that breaks on an error only
IsBreakErrOnly(res) == res = None

\* None | Some(0) => break
IsBreak(res) == res = None \/ res = Some(0)

\* a loop that tests the cursor after the call
LoopCondAfter(w, m) == w <= Len(m)

\* a loop that runs until the cursor is exactly the length
LoopCondNotEqual(w, m) == w # Len(m)

\* while written < msg.len()
LoopCond(w, m) == w < Len(m)

\* a cursor that moves one byte per call
AdvanceByOne(w, res) == w + 1

\* Some(res) => written += res
Advance(w, res) == w + res[1]

\* a sink that reports a loop that broke as an error
println_result_strict(broke) == IF broke THEN "Err" ELSE "Ok"

\* the value __libc_println returns: Ok(()) however the loop ended
println_result(broke) == "Ok"

-----------------------------------------------------------------------------
(* The state machine.                                                      *)

\* nothing has been written and no thread has started
InitRest ==
    /\ faults = 0
    /\ partials = 0
    /\ stream = [fd \in Fds |-> <<>>]
    /\ oscalls = <<>>
    /\ pc = [t \in Threads |-> "idle"]
    /\ call = [t \in Threads |-> NoCall]
    /\ todo = [t \in Threads |-> <<>>]
    /\ stm = [t \in Threads |-> 0]
    /\ fmtq = [t \in Threads |-> <<>>]
    /\ fmtres = [t \in Threads |-> <<>>]
    /\ msg = [t \in Threads |-> <<>>]
    /\ written = [t \in Threads |-> 0]
    /\ caller = [t \in Threads |-> "macro"]
    /\ sinks = [t \in Threads |-> <<>>]
    /\ tmp = [t \in Threads |-> IntVal(0)]
    /\ evals = [t \in Threads |-> <<>>]
    /\ yielded = [t \in Threads |-> <<>>]

Init ==
    /\ policy \in Policies
    /\ platform = "unix"
    /\ InitRest

\* the crate built for windows, under a write(2) that accepts a fixed chunk
InitWin ==
    /\ policy \in {ChunkPolicy(k) : k \in 1..MaxChunk}
    /\ platform = "windows"
    /\ InitRest

\* a write(2) that may also report more than it was asked
InitOver ==
    /\ policy \in Policies \cup OverPolicies
    /\ platform = "unix"
    /\ InitRest

\* two threads, under a write(2) that is free to fail
InitConc ==
    /\ policy = FreePolicy
    /\ platform = "unix"
    /\ InitRest

osvars == <<policy, platform, faults, partials, stream, oscalls>>
dbgvars == <<tmp, evals, yielded>>
sinkvars == <<msg, written, caller, sinks>>

\* the statement the macro body runs next
AtStmt(t, op) == pc[t] = "macro" /\ todo[t] # <<>> /\ Head(todo[t]).op = op

\* a sink that keeps its cursor from one call to the next
EnterSinkKeepCursor(t, op, s, from) ==
    /\ msg' = [msg EXCEPT ![t] = s]
    /\ UNCHANGED written
    /\ caller' = [caller EXCEPT ![t] = from]
    /\ sinks' = [sinks EXCEPT ![t] = Append(@, [op |-> op, fd |-> stm[t], msg |-> s,
                                                 calls |-> <<>>, got |-> <<>>,
                                                 res |-> "pending"])]
    /\ pc' = [pc EXCEPT ![t] = "loop"]

\* __libc_println(handle, s) is entered: `let mut written = 0`
EnterSink(t, op, s, from) ==
    /\ msg' = [msg EXCEPT ![t] = s]
    /\ written' = [written EXCEPT ![t] = 0]
    /\ caller' = [caller EXCEPT ![t] = from]
    /\ sinks' = [sinks EXCEPT ![t] = Append(@, [op |-> op, fd |-> stm[t], msg |-> s,
                                                 calls |-> <<>>, got |-> <<>>,
                                                 res |-> "pending"])]
    /\ pc' = [pc EXCEPT ![t] = "loop"]

\* a call site: one of the macros is invoked and expanded; a call site whose
\* expansion does not compile never runs
InvokeFrom(t, cs) ==
    /\ pc[t] = "idle"
    /\ \E c \in cs :
        /\ call' = [call EXCEPT ![t] = c]
        /\ todo' = [todo EXCEPT ![t] = Expand(c)]
        /\ pc' = [pc EXCEPT ![t] = IF Compiles(Expand(c)) THEN "macro" ELSE "rejected"]
    /\ UNCHANGED <<osvars, dbgvars, sinkvars, stm, fmtq, fmtres>>

Invoke(t) == InvokeFrom(t, Calls(policy))

\* a call site of one of two threads that write to the output stream
InvokeConc(t) == InvokeFrom(t, ConcCalls)

\* let mut stm = $crate::__LibCWriter::new(handle)
New(t) ==
    /\ AtStmt(t, "new")
    /\ stm' = [stm EXCEPT ![t] = Head(todo[t]).h]
    /\ todo' = [todo EXCEPT ![t] = Tail(@)]
    /\ UNCHANGED <<osvars, dbgvars, sinkvars, pc, call, fmtq, fmtres>>

\* an argument of format_args!: `&tmp` is the value libc_dbg! bound
ArgValue(t, a) == IF a.kind = "tmp" THEN tmp[t] ELSE a

\* stm.write_fmt(format_args!(...)): the engine takes the fragments
WriteFmt(t) ==
    /\ AtStmt(t, "write_fmt")
    /\ LET st == Head(todo[t])
       IN fmtq' = [fmtq EXCEPT ![t] =
                     format_args(st.tpl, [i \in 1..Len(st.args) |-> ArgValue(t, st.args[i])])]
    /\ todo' = [todo EXCEPT ![t] = Tail(@)]
    /\ pc' = [pc EXCEPT ![t] = "fmt"]
    /\ UNCHANGED <<osvars, dbgvars, sinkvars, call, stm, fmtres>>

\* the engine hands the next fragment to write_str (impl core::fmt::Write)
FmtNext(t) ==
    /\ pc[t] = "fmt"
    /\ fmtq[t] # <<>>
    /\ EnterSink(t, "frag", Head(fmtq[t]), "fmt")
    /\ fmtq' = [fmtq EXCEPT ![t] = Tail(@)]
    /\ UNCHANGED <<osvars, dbgvars, call, todo, stm, fmtres>>

\* the engine has handed over every fragment: write_fmt returns Ok(())
FmtEnd(t) ==
    /\ pc[t] = "fmt"
    /\ fmtq[t] = <<>>
    /\ fmtres' = [fmtres EXCEPT ![t] = Append(@, "Ok")]
    /\ pc' = [pc EXCEPT ![t] = "macro"]
    /\ UNCHANGED <<osvars, dbgvars, sinkvars, call, todo, stm, fmtq>>

\* stm.write_str($arg)
WriteStr(t) ==
    /\ AtStmt(t, "write_str")
    /\ EnterSink(t, "write_str", Head(todo[t]).s, "macro")
    /\ todo' = [todo EXCEPT ![t] = Tail(@)]
    /\ UNCHANGED <<osvars, dbgvars, call, stm, fmtq, fmtres>>

\* stm.write_nl()
WriteNl(t) ==
    /\ AtStmt(t, "write_nl")
    /\ EnterSink(t, "write_nl", __LIBC_NEWLINE, "macro")
    /\ todo' = [todo EXCEPT ![t] = Tail(@)]
    /\ UNCHANGED <<osvars, dbgvars, call, stm, fmtq, fmtres>>

\* a sink whose cursor is one static that all callers share
SinkWriteSharedCursor(t) ==
    /\ pc[t] = "loop"
    /\ LoopCond(written[MainThread], msg[t])
    /\ LET bytes == Suffix(msg[t], written[MainThread])
           count == CountArg(bytes)
       IN \E r \in OsRets(count) :
            /\ OsWrite(t, Len(sinks[t]), stm[t], bytes, count, r)
            /\ sinks' = [sinks EXCEPT ![t][Len(sinks[t])].calls =
                            Append(@, OsCall(t, Len(sinks[t]), stm[t], bytes, count, r)),
                                      ![t][Len(sinks[t])].got = Append(@, libc_write(r))]
            /\ IF IsBreak(libc_write(r))
               THEN /\ pc' = [pc EXCEPT ![t] = "ret"]
                    /\ UNCHANGED written
               ELSE /\ written' = [written EXCEPT ![MainThread] = Advance(@, libc_write(r))]
                    /\ UNCHANGED pc
    /\ UNCHANGED <<policy, platform, dbgvars, call, todo, stm, fmtq, fmtres, msg, caller>>

\* one iteration of the loop of __libc_println: libc_write on the rest of
\* the slice, then the match on its result
SinkWrite(t) ==
    /\ pc[t] = "loop"
    /\ LoopCond(written[t], msg[t])
    /\ LET bytes == Suffix(msg[t], written[t])
           count == CountArg(bytes)
       IN \E r \in OsRets(count) :
            /\ OsWrite(t, Len(sinks[t]), stm[t], bytes, count, r)
            /\ sinks' = [sinks EXCEPT ![t][Len(sinks[t])].calls =
                            Append(@, OsCall(t, Len(sinks[t]), stm[t], bytes, count, r)),
                                      ![t][Len(sinks[t])].got = Append(@, libc_write(r))]
            /\ IF IsBreak(libc_write(r))
               THEN /\ pc' = [pc EXCEPT ![t] = "ret"]
                    /\ UNCHANGED written
               ELSE /\ written' = [written EXCEPT ![t] = Advance(@, libc_write(r))]
                    /\ UNCHANGED pc
    /\ UNCHANGED <<policy, platform, dbgvars, call, todo, stm, fmtq, fmtres, msg, caller>>

\* __libc_println returns, after the loop ended or broke; write_fmt stops at
\* a fragment whose write_str returned an error, the macros ignore the result
SinkReturn(t) ==
    /\ \/ pc[t] = "ret"
       \/ pc[t] = "loop" /\ ~LoopCond(written[t], msg[t])
    /\ LET res == println_result(pc[t] = "ret")
       IN /\ sinks' = [sinks EXCEPT ![t][Len(sinks[t])].res = res]
          /\ IF caller[t] = "fmt" /\ res # "Ok"
             THEN /\ fmtres' = [fmtres EXCEPT ![t] = Append(@, "Err")]
                  /\ fmtq' = [fmtq EXCEPT ![t] = <<>>]
                  /\ pc' = [pc EXCEPT ![t] = "macro"]
             ELSE /\ pc' = [pc EXCEPT ![t] = caller[t]]
                  /\ UNCHANGED <<fmtres, fmtq>>
    /\ UNCHANGED <<osvars, dbgvars, call, todo, stm, msg, written, caller>>

\* libc_dbg!: `match $val { tmp => ...`: the expression is evaluated
Eval(t) ==
    /\ AtStmt(t, "eval")
    /\ LET e == Head(todo[t]).e[1]
       IN /\ tmp' = [tmp EXCEPT ![t] = e.val]
          /\ evals' = [evals EXCEPT ![t] = Append(@, e)]
    /\ todo' = [todo EXCEPT ![t] = Tail(@)]
    /\ UNCHANGED <<osvars, sinkvars, pc, call, stm, fmtq, fmtres, yielded>>

\* libc_dbg!: the block's value is `tmp`
Yield(t) ==
    /\ AtStmt(t, "yield")
    /\ yielded' = [yielded EXCEPT ![t] = Append(@, tmp[t])]
    /\ todo' = [todo EXCEPT ![t] = Tail(@)]
    /\ UNCHANGED <<osvars, sinkvars, pc, call, stm, fmtq, fmtres, tmp, evals>>

\* the macro's block ends
Finish(t) ==
    /\ pc[t] = "macro"
    /\ todo[t] = <<>>
    /\ pc' = [pc EXCEPT ![t] = "done"]
    /\ UNCHANGED <<osvars, dbgvars, sinkvars, call, todo, stm, fmtq, fmtres>>

Next ==
    \E t \in {MainThread} :
        \/ Invoke(t)
        \/ New(t)
        \/ WriteFmt(t)
        \/ FmtNext(t)
        \/ FmtEnd(t)
        \/ WriteStr(t)
        \/ WriteNl(t)
        \/ SinkWrite(t)
        \/ SinkReturn(t)
        \/ Eval(t)
        \/ Yield(t)
        \/ Finish(t)

Spec == Init /\ [][Next]_vars

\* the same program built for windows
SpecWin == InitWin /\ [][Next]_vars

\* the same program over a write(2) that may report more than requested
SpecOver == InitOver /\ [][Next]_vars

\* two threads, each making one call on the output stream; the scheduler may
\* run either at every step
NextConc ==
    \E t \in Threads :
        \/ InvokeConc(t)
        \/ New(t)
        \/ WriteFmt(t)
        \/ FmtNext(t)
        \/ FmtEnd(t)
        \/ WriteStr(t)
        \/ WriteNl(t)
        \/ SinkWrite(t)
        \/ SinkReturn(t)
        \/ Finish(t)

SpecConc == InitConc /\ [][NextConc]_vars

-----------------------------------------------------------------------------
(* What the log says about one call of __libc_println.                     *)

\* the write(2) calls of the i-th sink call of thread t, in order
CallsOf(t, i) == sinks[t][i].calls

\* the log of the sink calls and the log of write(2) agree
LogsAgree ==
    \A t \in Threads : \A i \in 1..Len(sinks[t]) :
        sinks[t][i].calls = SelectSeq(oscalls, LAMBDA c : c.by = t /\ c.inv = i)

\* the bytes a sequence of write(2) calls got accepted, in call order
RECURSIVE Accepted(_)
Accepted(cs) ==
    IF cs = <<>> THEN <<>>
    ELSE (IF Head(cs).ret > 0 THEN SubSeq(Head(cs).buf, 1, Head(cs).ret) ELSE <<>>)
         \o Accepted(Tail(cs))

\* the number of bytes a sequence of write(2) calls got accepted
RECURSIVE AcceptedCount(_)
AcceptedCount(cs) ==
    IF cs = <<>> THEN 0
    ELSE (IF Head(cs).ret > 0 THEN Head(cs).ret ELSE 0) + AcceptedCount(Tail(cs))

\* the sink calls made so far: <<t, i>> is the i-th one of thread t
SinkCalls == UNION {{<<t, i>> : i \in 1..Len(sinks[t])} : t \in Threads}
Returned(ti) == sinks[ti[1]][ti[2]].res # "pending"

Ceil(a, b) == (a + b - 1) \div b

-----------------------------------------------------------------------------
\* C1: when write(2) always accepts min(requested, 7) bytes, a call of
\* __libc_println on a slice of length L (L = 0 included) that has returned
\* issued exactly ceil(L/7) calls of write(2), and the bytes accepted,
\* concatenated in call order, are the slice.
C1_ChunkedWriteComplete ==
    policy = ChunkPolicy(7) =>
        \A ti \in SinkCalls :
            Returned(ti) =>
                LET cs == CallsOf(ti[1], ti[2])
                    m == sinks[ti[1]][ti[2]].msg
                IN /\ Len(cs) = Ceil(Len(m), 7)
                   /\ Accepted(cs) = m

\* a slice of 15 bytes went out in three calls of 7, 7 and 1 bytes
C1_Witness ==
    /\ policy = ChunkPolicy(7)
    /\ \E ti \in SinkCalls :
        /\ Returned(ti)
        /\ Len(sinks[ti[1]][ti[2]].msg) = 15
        /\ LET cs == CallsOf(ti[1], ti[2])
           IN Len(cs) = 3 /\ cs[1].ret = 7 /\ cs[2].ret = 7 /\ cs[3].ret = 1

\* C2: when write(2) reports "no progress" (an error or zero bytes) to a call
\* of __libc_println after K < L bytes were accepted, that is the last call
\* of write(2) of the invocation, and the bytes the invocation transmitted
\* are the first K bytes of the slice.
C2_StopAtNoProgress ==
    \A ti \in SinkCalls :
        LET cs == CallsOf(ti[1], ti[2])
            m == sinks[ti[1]][ti[2]].msg
        IN \A j \in 1..Len(cs) :
            cs[j].ret <= 0 =>
                LET K == AcceptedCount(SubSeq(cs, 1, j - 1))
                IN /\ j = Len(cs)
                   /\ K < Len(m)
                   /\ Accepted(cs) = SubSeq(m, 1, K)

\* a sink call returned after a short write and then "no progress"
C2_Witness ==
    \E ti \in SinkCalls :
        /\ Returned(ti)
        /\ LET cs == CallsOf(ti[1], ti[2])
           IN /\ Len(cs) = 2
              /\ cs[1].ret > 0
              /\ cs[2].ret <= 0
              /\ Len(sinks[ti[1]][ti[2]].msg) > cs[1].ret

-----------------------------------------------------------------------------
(* What the log says about one formatted call.                             *)

\* the sink calls of thread t that came from the formatting engine
FragCalls(t) == {i \in 1..Len(sinks[t]) : sinks[t][i].op = "frag"}

\* the slices thread t handed to the sink through the engine, in order
FragMsgs(t) ==
    LET fs == SelectSeq(sinks[t], LAMBDA s : s.op = "frag")
    IN [i \in 1..Len(fs) |-> fs[i].msg]

\* a sink call one of whose write(2) calls reported "no progress"
Stalled(t, i) == \E j \in 1..Len(CallsOf(t, i)) : CallsOf(t, i)[j].ret <= 0

IsFmtCall(c) == c.shape \in FmtShapes

\* the template and the arguments of a formatted call
TplOf(c) == IF c.form = "empty" THEN <<>> ELSE c.tpl
ArgsOf(c) == IF c.form = "empty" THEN <<>> ELSE c.args

\* C3: within one formatted call a fragment whose write stalls on "no
\* progress" does not abort the formatting engine: write_fmt returns Ok, every
\* fragment of the call has been handed to the sink, in order, each sink call
\* returned Ok, and each non-empty fragment got a retry loop of its own that
\* started at the fragment's first byte.
C3_StallDoesNotAbortFragments ==
    \A t \in Threads :
        (IsFmtCall(call[t]) /\ pc[t] \in {"macro", "done"} /\ fmtres[t] # <<>>) =>
            /\ fmtres[t] = <<"Ok">>
            /\ FragMsgs(t) = format_args(TplOf(call[t]), ArgsOf(call[t]))
            /\ \A i \in FragCalls(t) :
                /\ sinks[t][i].res = "Ok"
                /\ sinks[t][i].msg # <<>> =>
                    /\ CallsOf(t, i) # <<>>
                    /\ CallsOf(t, i)[1].buf = sinks[t][i].msg

\* a formatted call whose first fragment stalled and whose later fragment
\* was written all the same
C3_Witness ==
    \E t \in Threads :
        /\ IsFmtCall(call[t])
        /\ pc[t] = "done"
        /\ \E i \in FragCalls(t), j \in FragCalls(t) :
            /\ i < j
            /\ Stalled(t, i)
            /\ Accepted(CallsOf(t, j)) = sinks[t][j].msg
            /\ sinks[t][j].msg # <<>>

\* C4: no failure reaches the caller: whatever write(2) returned, every
\* write_str, write_nl and __libc_println call that returned returned Ok,
\* write_fmt returned Ok, and the slice index `written..` of the loop is in
\* range, which is the one place where the sink could panic.
C4_NeverEscalates ==
    \A t \in Threads :
        /\ \A i \in 1..Len(sinks[t]) : sinks[t][i].res \in {"pending", "Ok"}
        /\ \A i \in 1..Len(fmtres[t]) : fmtres[t][i] = "Ok"
        /\ pc[t] = "loop" => written[t] <= Len(msg[t])

\* a call shape finished although write(2) had failed with an error
C4_Witness ==
    \E t \in Threads :
        /\ pc[t] = "done"
        /\ \E i \in 1..Len(oscalls) : oscalls[i].by = t /\ oscalls[i].ret < 0
        /\ \E i \in 1..Len(sinks[t]) : sinks[t][i].op = "write_str"
        /\ \A i \in 1..Len(sinks[t]) : sinks[t][i].res = "Ok"

\* C5: a call of __libc_println on a slice of length L makes at most L calls
\* of write(2): each call but the last of an invocation got at least one byte
\* accepted, the cursor is the number of bytes accepted so far, and it never
\* passes L.
C5_AtMostLengthCalls ==
    \A ti \in SinkCalls :
        LET cs == CallsOf(ti[1], ti[2])
            m == sinks[ti[1]][ti[2]].msg
        IN /\ Len(cs) <= Len(m)
           /\ \A j \in 1..(Len(cs) - 1) : cs[j].ret >= 1
           /\ (ti[2] = Len(sinks[ti[1]]) /\ pc[ti[1]] = "loop") =>
                /\ written[ti[1]] = AcceptedCount(cs)
                /\ written[ti[1]] <= Len(m)

\* the worst case: a slice of 15 bytes written one byte per call, 15 calls
C5_Witness ==
    \E ti \in SinkCalls :
        /\ Returned(ti)
        /\ Len(sinks[ti[1]][ti[2]].msg) = 15
        /\ Len(CallsOf(ti[1], ti[2])) = 15

-----------------------------------------------------------------------------
(* What the log says about the newline and the descriptors.                *)

\* the sink calls of thread t made by write_nl
NlCalls(t) == {i \in 1..Len(sinks[t]) : sinks[t][i].op = "write_nl"}

\* the position in the log of the first (last) write(2) call of a sink call,
\* 0 when it made none
FirstAt(t, i) ==
    LET at == {j \in 1..Len(oscalls) : oscalls[j].by = t /\ oscalls[j].inv = i}
    IN IF at = {} THEN 0 ELSE CHOOSE j \in at : \A k \in at : j <= k
LastAt(t, i) ==
    LET at == {j \in 1..Len(oscalls) : oscalls[j].by = t /\ oscalls[j].inv = i}
    IN IF at = {} THEN 0 ELSE CHOOSE j \in at : \A k \in at : j >= k

\* C6: write_nl hands the sink the single byte "\n": what it transmits is
\* nothing or that one byte, and exactly that byte in one write(2) call when
\* write(2) accepts it. A finished libc_println!, libc_eprintln!,
\* libc_writeln! or libc_ewriteln! called write_nl exactly once, as its last
\* sink call, after every write(2) call of the message; the call shapes
\* without newline never call it.
C6_NewlineOnceAfterMessage ==
    \A t \in Threads :
        /\ \A i \in NlCalls(t) :
            LET cs == CallsOf(t, i)
            IN /\ sinks[t][i].msg = <<"\n">>
               /\ Accepted(cs) \in {<<>>, <<"\n">>}
               /\ (cs # <<>> /\ cs[1].ret > 0) =>
                    /\ Len(cs) = 1
                    /\ cs[1].buf = <<"\n">>
                    /\ Accepted(cs) = <<"\n">>
        /\ (pc[t] = "done"
            /\ call[t].shape \in {"libc_println", "libc_eprintln", "libc_writeln", "libc_ewriteln"}) =>
                /\ NlCalls(t) = {Len(sinks[t])}
                /\ \A i \in 1..(Len(sinks[t]) - 1) :
                    FirstAt(t, Len(sinks[t])) # 0 => LastAt(t, i) < FirstAt(t, Len(sinks[t]))
        /\ call[t].shape \in {"libc_print", "libc_eprint", "libc_write", "libc_ewrite"} =>
                NlCalls(t) = {}

\* a finished libc_writeln! whose message took two write(2) calls and whose
\* newline then went out in one
C6_Witness ==
    \E t \in Threads :
        /\ pc[t] = "done"
        /\ call[t].shape = "libc_writeln"
        /\ Len(sinks[t]) = 2
        /\ Len(CallsOf(t, 1)) = 2
        /\ Accepted(CallsOf(t, 1)) = call[t].s
        /\ Accepted(CallsOf(t, 2)) = <<"\n">>
        /\ Bytes(stream[1]) = call[t].s \o <<"\n">>

\* C8: every write(2) call made for libc_print!, libc_println!, libc_write!
\* or libc_writeln! uses descriptor 1 and every one made for libc_eprint!,
\* libc_eprintln!, libc_ewrite!, libc_ewriteln! or libc_dbg! uses descriptor
\* 2; the descriptor of the sink instance is the same for all the writes of
\* one call (retries and the trailing newline included), and nothing reaches
\* the other stream.
C8_DescriptorFixedByShape ==
    \A t \in Threads :
        LET fd == IF call[t].shape \in {"libc_print", "libc_println", "libc_write", "libc_writeln"}
                  THEN 1 ELSE 2
        IN /\ \A j \in 1..Len(oscalls) : oscalls[j].by = t => oscalls[j].fd = fd
           /\ \A i \in 1..Len(sinks[t]) : sinks[t][i].fd = fd
           /\ stm[t] \in {0, fd}
           /\ \A j \in 1..Len(stream[3 - fd]) : stream[3 - fd][j].by # t

\* a finished libc_eprintln! that retried a short write and wrote its newline,
\* all on descriptor 2
C8_Witness ==
    \E t \in Threads :
        /\ pc[t] = "done"
        /\ call[t].shape = "libc_eprintln"
        /\ \E i \in 1..Len(sinks[t]) : Len(CallsOf(t, i)) >= 2
        /\ Accepted(CallsOf(t, Len(sinks[t]))) = <<"\n">>
        /\ Len(stream[2]) >= 3
        /\ stream[1] = <<>>

-----------------------------------------------------------------------------
(* The literal-string fast path as a function of the results of write(2).  *)

\* the write(2) calls __libc_println(fd, m) makes from cursor w on when
\* write(2) returns the results rets, one per call
RECURSIVE SinkRun(_, _, _, _)
SinkRun(fd, m, w, rets) ==
    IF ~(w < Len(m)) \/ rets = <<>> THEN <<>>
    ELSE LET r == Head(rets)
         IN <<[fd |-> fd, buf |-> SubSeq(m, w + 1, Len(m)), ret |-> r]>>
            \o (IF r <= 0 THEN <<>> ELSE SinkRun(fd, m, w + r, Tail(rets)))

\* the write(2) calls of stm.write_str(s) and, for the shapes with newline,
\* stm.write_nl() after it, on descriptor fd under the results rets
FastPathRun(fd, s, nl, rets) ==
    LET first == SinkRun(fd, s, 0, rets)
        rest == SubSeq(rets, Len(first) + 1, Len(rets))
    IN first \o (IF nl THEN SinkRun(fd, <<"\n">>, 0, rest) ELSE <<>>)

\* the write(2) calls thread t made: descriptor, bytes offered, result
LogOf(t) ==
    LET cs == SelectSeq(oscalls, LAMBDA c : c.by = t)
    IN [i \in 1..Len(cs) |-> [fd |-> cs[i].fd, buf |-> cs[i].buf, ret |-> cs[i].ret]]

RetsOf(t) == [i \in 1..Len(LogOf(t)) |-> LogOf(t)[i].ret]

\* the bytes thread t got accepted on descriptor fd, in stream order
StreamOf(t, fd) ==
    Bytes(SelectSeq(stream[fd], LAMBDA x : x.by = t))

\* a template with no substitutions / with no brace at all
NoSubstitution(tpl) == IsTemplate(tpl) /\ NumArgs(tpl) = 0
NoBrace(tpl) == \A i \in 1..Len(tpl) : tpl[i] \notin {"{", "}"}

\* a finished call made the write(2) calls, and got the bytes accepted, that
\* the fast path makes for the string `str` on descriptor fd
SameAsFastPath(t, fd, str, nl) ==
    LET run == FastPathRun(fd, str, nl, RetsOf(t))
    IN /\ LogOf(t) = run
       /\ StreamOf(t, fd) = Accepted(run)

\* C7 as stated: for a template with no substitutions the formatting path
\* (libc_print!, libc_println! and the error-stream pair) transmits what the
\* fast path (libc_write!, libc_writeln!, ...) transmits for the same string,
\* to the same stream, under the same results of write(2).
C7_Original_FastPathSameOutput ==
    \A t \in Threads :
        pc[t] = "done" =>
            /\ call[t].shape \in StrShapes =>
                SameAsFastPath(t, IF call[t].shape \in {"libc_write", "libc_writeln"} THEN 1 ELSE 2,
                               call[t].s,
                               call[t].shape \in {"libc_writeln", "libc_ewriteln"})
            /\ (call[t].shape \in FmtShapes /\ call[t].form = "args"
                /\ NoSubstitution(call[t].tpl)) =>
                SameAsFastPath(t, IF call[t].shape \in {"libc_print", "libc_println"} THEN 1 ELSE 2,
                               call[t].tpl,
                               call[t].shape \in {"libc_println", "libc_eprintln"})

\* C7 (amended): the same, for a template with no substitutions and no brace
\* at all: the escapes "{{" and "}}" are each one brace on the formatting path
\* and two bytes on the fast path.
C7_FastPathSameOutputNoBrace ==
    \A t \in Threads :
        pc[t] = "done" =>
            /\ call[t].shape \in StrShapes =>
                SameAsFastPath(t, IF call[t].shape \in {"libc_write", "libc_writeln"} THEN 1 ELSE 2,
                               call[t].s,
                               call[t].shape \in {"libc_writeln", "libc_ewriteln"})
            /\ (call[t].shape \in FmtShapes /\ call[t].form = "args"
                /\ NoSubstitution(call[t].tpl) /\ NoBrace(call[t].tpl)) =>
                SameAsFastPath(t, IF call[t].shape \in {"libc_print", "libc_println"} THEN 1 ELSE 2,
                               call[t].tpl,
                               call[t].shape \in {"libc_println", "libc_eprintln"})

\* a finished libc_println! of a brace-free literal of three bytes that was
\* retried after a short write, newline included
C7_Witness ==
    \E t \in Threads :
        /\ pc[t] = "done"
        /\ call[t].shape = "libc_println"
        /\ call[t].form = "args"
        /\ NoBrace(call[t].tpl)
        /\ Len(call[t].tpl) = 3
        /\ Len(LogOf(t)) = 3
        /\ StreamOf(t, 1) = call[t].tpl \o <<"\n">>

-----------------------------------------------------------------------------
(* What libc_dbg! is to write.                                             *)

\* the text of an integer
IntText(n) == IF n < 0 THEN <<"-">> \o Decimal(-n) ELSE Decimal(n)

\* "[file:line] text = value" and the newline, for one expression
DbgLine(e) ==
    <<"[">> \o File \o <<":">> \o IntText(Line.n) \o <<"]", " ">>
    \o e.text \o <<" ", "=", " ">> \o IntText(e.val.n) \o <<"\n">>

RECURSIVE DbgLines(_)
DbgLines(es) == IF es = <<>> THEN <<>> ELSE DbgLine(Head(es)) \o DbgLines(Tail(es))

\* the slices libc_dbg! hands to the sink for one expression, in order: the
\* pieces of "[{}:{}] {} = {:#?}" with file, line, text and value, then "\n"
DbgFrags(e) ==
    <<<<"[">>, File, <<":">>, IntText(Line.n), <<"]", " ">>, e.text, <<" ", "=", " ">>>>
    \o (IF e.val.n < 0 THEN <<<<"-">>, <<>>, Decimal(-e.val.n)>>
        ELSE <<<<>>, Decimal(e.val.n)>>)
    \o <<<<"\n">>>>

RECURSIVE DbgFragsOf(_)
DbgFragsOf(es) ==
    IF es = <<>> THEN <<>> ELSE DbgFrags(Head(es)) \o DbgFragsOf(Tail(es))

\* the slices thread t handed to the sink, in order
SinkMsgs(t) == [i \in 1..Len(sinks[t]) |-> sinks[t][i].msg]

\* every write(2) call of thread t accepted all it was offered
AllAccepted(t) ==
    \A j \in 1..Len(oscalls) : oscalls[j].by = t => oscalls[j].ret = oscalls[j].count

IsDbg(t, n) ==
    call[t].shape = "libc_dbg" /\ call[t].form = "args" /\ Len(call[t].exprs) = n

\* C9: a finished libc_dbg! of one expression evaluated the expression exactly
\* once and yields its value unchanged, whether or not the writes succeeded;
\* what it handed to the sink is the annotation "[file:line] ", the
\* expression's text, " = ", the formatted value and then the newline, all on
\* the error stream, and that is what the stream holds when write(2) accepted
\* everything.
C9_DbgOneExpression ==
    \A t \in Threads :
        (IsDbg(t, 1) /\ pc[t] = "done") =>
            LET e == call[t].exprs[1]
            IN /\ evals[t] = <<e>>
               /\ yielded[t] = <<e.val>>
               /\ SinkMsgs(t) = DbgFrags(e)
               /\ sinks[t][Len(sinks[t])].op = "write_nl"
               /\ \A i \in 1..Len(sinks[t]) : sinks[t][i].fd = 2
               /\ StreamOf(t, 1) = <<>>
               /\ AllAccepted(t) => StreamOf(t, 2) = DbgLine(e)

\* a finished libc_dbg!(x) that lost part of its line to a failed write and
\* yields the value of x
C9_Witness ==
    \E t \in Threads :
        /\ IsDbg(t, 1)
        /\ pc[t] = "done"
        /\ \E j \in 1..Len(oscalls) : oscalls[j].ret <= 0
        /\ Len(StreamOf(t, 2)) > 0
        /\ StreamOf(t, 2) # DbgLine(call[t].exprs[1])
        /\ yielded[t] = <<call[t].exprs[1].val>>

\* C10: libc_dbg! of N > 1 expressions treats them left to right: the
\* expressions evaluated so far are the first k of the list, in order; the
\* k-th is evaluated only after every sink call of the first k-1 and before
\* any of its own, so the error-stream writes of expression i all precede
\* those of expression i+1; each value is yielded before the next expression
\* is evaluated; and the finished call yields the N values in the original
\* order, having handed the sink the N lines in that order.
C10_DbgTupleLeftToRight ==
    \A t \in Threads :
        (call[t].shape = "libc_dbg" /\ Len(call[t].exprs) > 1) =>
            LET es == call[t].exprs
                k == Len(evals[t])
                y == Len(yielded[t])
                before == DbgFragsOf(SubSeq(es, 1, k - 1))
                upto == IF k = 0 THEN <<>> ELSE before \o DbgFrags(es[k])
                n == Len(sinks[t])
            IN /\ k <= Len(es)
               /\ evals[t] = SubSeq(es, 1, k)
               /\ y \in {k - 1, k} \cap Nat
               /\ yielded[t] = [i \in 1..y |-> es[i].val]
               /\ Len(before) <= n
               /\ n <= Len(upto)
               /\ SinkMsgs(t) = SubSeq(upto, 1, n)
               /\ y = k => n = Len(upto)
               /\ \A i \in 1..(Len(oscalls) - 1) :
                    (oscalls[i].by = t /\ oscalls[i + 1].by = t) =>
                        oscalls[i].inv <= oscalls[i + 1].inv
               /\ pc[t] = "done" =>
                    /\ k = Len(es)
                    /\ y = Len(es)
                    /\ AllAccepted(t) => StreamOf(t, 2) = DbgLines(es)

\* a finished libc_dbg! of two different expressions: both lines on the error
\* stream in order, and the pair of values in order
C10_Witness ==
    \E t \in Threads :
        /\ IsDbg(t, 2)
        /\ pc[t] = "done"
        /\ call[t].exprs[1] # call[t].exprs[2]
        /\ StreamOf(t, 2) = DbgLine(call[t].exprs[1]) \o DbgLine(call[t].exprs[2])
        /\ yielded[t] = <<call[t].exprs[1].val, call[t].exprs[2].val>>

\* "[file:line]" and the newline
DbgNoneLine == <<"[">> \o File \o <<":">> \o IntText(Line.n) \o <<"]", "\n">>

\* the slices of "[{}:{}]" with file and line, then "\n"
DbgNoneFrags == <<<<"[">>, File, <<":">>, IntText(Line.n), <<"]">>, <<"\n">>>>

\* C11: libc_dbg!() with no expression is a call that runs: when it has
\* finished it handed the sink the annotation "[file:line]" and then the
\* newline, all on the error stream, and that is what the stream holds when
\* write(2) accepted everything.
C11_DbgNoExpression ==
    \A t \in Threads :
        (call[t].shape = "libc_dbg" /\ call[t].form = "empty") =>
            /\ pc[t] # "rejected"
            /\ pc[t] = "done" =>
                /\ SinkMsgs(t) = DbgNoneFrags
                /\ \A i \in 1..Len(sinks[t]) : sinks[t][i].fd = 2
                /\ AllAccepted(t) => StreamOf(t, 2) = DbgNoneLine

-----------------------------------------------------------------------------
(* What each call of libc_write is handed.                                 *)

\* the sink call each thread is in or has last returned from. The record of
\* a sink call changes no more once the thread has entered the next one, so
\* what holds of the latest sink call in every state holds of every sink call.
LatestSinkCalls == {<<t, Len(sinks[t])>> : t \in {u \in Threads : sinks[u] # <<>>}}

\* the slices handed to a sequence of write(2) calls
Bufs(cs) == [j \in 1..Len(cs) |-> cs[j].buf]

\* C13: the slice handed to every libc_write call of a sink call is the
\* suffix of the sink's slice that starts at the cursor, and the cursor is the
\* sum of the counts the earlier calls of the same sink call accepted; for
\* "ab" accepted one byte per call the calls are "ab", then "b", and no more.
C13_SuffixAtCursor ==
    \A ti \in LatestSinkCalls :
        LET cs == CallsOf(ti[1], ti[2])
            m == sinks[ti[1]][ti[2]].msg
        IN /\ \A j \in 1..Len(cs) :
                cs[j].buf = SubSeq(m, AcceptedCount(SubSeq(cs, 1, j - 1)) + 1, Len(m))
           /\ pc[ti[1]] = "loop" => written[ti[1]] = AcceptedCount(cs)
           /\ (policy = ChunkPolicy(1) /\ m = <<"a", "b">> /\ Returned(ti)) =>
                Bufs(cs) = <<<<"a", "b">>, <<"b">>>>

\* "ab" under a write(2) that accepts one byte per call: the sink call has
\* returned after the two calls "ab" and "b"
C13_Witness ==
    \E ti \in SinkCalls :
        /\ policy = ChunkPolicy(1)
        /\ sinks[ti[1]][ti[2]].msg = <<"a", "b">>
        /\ Returned(ti)
        /\ Bufs(CallsOf(ti[1], ti[2])) = <<<<"a", "b">>, <<"b">>>>
        /\ Accepted(CallsOf(ti[1], ti[2])) = <<"a", "b">>

\* the values libc_write returned to the i-th sink call of thread t
GotOf(t, i) == sinks[t][i].got

\* the number of libc_write invocations of the sink calls in a log
RECURSIVE Invocations(_)
Invocations(log) ==
    IF log = <<>> THEN 0 ELSE Len(Head(log).got) + Invocations(Tail(log))

RECURSIVE InvocationsOf(_)
InvocationsOf(T) ==
    IF T = {} THEN 0
    ELSE LET t == CHOOSE x \in T : TRUE
         IN Invocations(sinks[t]) + InvocationsOf(T \ {t})

\* C14: every invocation of libc_write made exactly one write(2) call; a
\* negative result of write(2) came back as None and a result N >= 0 as
\* Some(N); after an error as after a zero the sink call made no further
\* call, left the cursor where it was and returned Ok.
C14_OneCallNormalised ==
    /\ InvocationsOf(Threads) = Len(oscalls)
    /\ \A ti \in LatestSinkCalls :
        LET cs == CallsOf(ti[1], ti[2])
            got == GotOf(ti[1], ti[2])
        IN /\ Len(got) = Len(cs)
           /\ \A j \in 1..Len(cs) :
                /\ cs[j].ret < 0 => got[j] = None
                /\ cs[j].ret >= 0 => got[j] = Some(cs[j].ret)
                /\ cs[j].ret <= 0 =>
                    /\ j = Len(cs)
                    /\ pc[ti[1]] # "loop"
                    /\ written[ti[1]] = AcceptedCount(cs)
                    /\ Returned(ti) => sinks[ti[1]][ti[2]].res = "Ok"

\* a sink call whose first libc_write returned Some(1) and whose second got
\* -1 from write(2), returned None and ended the call
C14_Witness ==
    \E ti \in SinkCalls :
        /\ Returned(ti)
        /\ Len(CallsOf(ti[1], ti[2])) = 2
        /\ CallsOf(ti[1], ti[2])[1].ret = 1
        /\ CallsOf(ti[1], ti[2])[2].ret = -1
        /\ GotOf(ti[1], ti[2]) = <<Some(1), None>>

-----------------------------------------------------------------------------
(* Sink calls one after the other.                                         *)

\* C16: a sink call starts afresh whatever the earlier ones did: it enters
\* its loop with the cursor at zero, its first libc_write call is handed its
\* whole slice, and a sink call with a non-empty slice that returned made at
\* least one call; so the newline of a finished libc_println!,
\* libc_eprintln!, libc_writeln! or libc_ewriteln! was attempted even when
\* the message before it stalled.
C16_SinkCallsIndependent ==
    \A ti \in LatestSinkCalls :
        LET t == ti[1]
            i == ti[2]
            cs == CallsOf(t, i)
            m == sinks[t][i].msg
        IN /\ cs # <<>> => cs[1].buf = m
           /\ (pc[t] = "loop" /\ cs = <<>>) => written[t] = 0
           /\ (Returned(ti) /\ m # <<>>) => cs # <<>>
           /\ (pc[t] = "done" /\ HasNl(call[t].shape)) =>
                /\ sinks[t][i].op = "write_nl"
                /\ cs # <<>>
                /\ cs[1].buf = <<"\n">>

\* a finished libc_writeln! whose message stalled after one of its bytes and
\* whose newline was accepted all the same
C16_Witness ==
    \E t \in Threads :
        /\ pc[t] = "done"
        /\ call[t].shape = "libc_writeln"
        /\ Len(sinks[t]) = 2
        /\ Stalled(t, 1)
        /\ AcceptedCount(CallsOf(t, 1)) = 1
        /\ Len(sinks[t][1].msg) > 1
        /\ ~Stalled(t, 2)
        /\ Accepted(CallsOf(t, 2)) = <<"\n">>

-----------------------------------------------------------------------------
(* Empty slices.                                                           *)

\* C17: no write(2) call carries an empty slice: every call is handed at
\* least one byte and asks for at least one; a sink call with an empty slice
\* (an empty string, an empty fragment, the message of libc_println!())
\* makes no call at all, so a finished libc_println!() or libc_eprintln!()
\* made calls for its newline only.
C17_NoEmptyWrite ==
    /\ \A j \in 1..Len(oscalls) : Len(oscalls[j].buf) >= 1 /\ oscalls[j].count >= 1
    /\ \A ti \in LatestSinkCalls :
        sinks[ti[1]][ti[2]].msg = <<>> => CallsOf(ti[1], ti[2]) = <<>>
    /\ \A t \in Threads :
        (pc[t] = "done" /\ call[t].shape \in FmtShapes /\ call[t].form = "empty") =>
            \A j \in 1..Len(oscalls) :
                oscalls[j].by = t => oscalls[j].inv \in NlCalls(t)

\* a finished libc_println!(): its message made no write(2) call, the only
\* call is the one of the newline
C17_Witness ==
    \E t \in Threads :
        /\ pc[t] = "done"
        /\ call[t].shape = "libc_println"
        /\ call[t].form = "empty"
        /\ Len(sinks[t]) = 1
        /\ Len(oscalls) = 1
        /\ oscalls[1].buf = <<"\n">>
        /\ oscalls[1].ret = 1

-----------------------------------------------------------------------------
(* The count of write(2) where its type is narrower than usize.            *)

\* every write(2) call of a sequence accepted what it was asked
AcceptedAsAsked(cs) == \A j \in 1..Len(cs) : cs[j].ret = cs[j].count

\* C15: built for windows, every write(2) call asks for the length of its
\* slice when that fits the count's type and for the type's maximum when it
\* does not, never for a wrapped-around value; and a slice of any length is
\* transmitted whole, in ceil(L / maximum) calls, when every call accepts
\* what it was asked.
C15_CountClamped ==
    /\ \A j \in 1..Len(oscalls) :
        LET c == oscalls[j]
        IN /\ c.count <= C_UINT_MAX
           /\ Len(c.buf) <= C_UINT_MAX => c.count = Len(c.buf)
           /\ Len(c.buf) > C_UINT_MAX => c.count = C_UINT_MAX
    /\ \A ti \in SinkCalls :
        LET cs == CallsOf(ti[1], ti[2])
            m == sinks[ti[1]][ti[2]].msg
        IN (Returned(ti) /\ AcceptedAsAsked(cs)) =>
            /\ Accepted(cs) = m
            /\ Len(cs) = Ceil(Len(m), C_UINT_MAX)

\* a slice of 15 bytes on windows: the first call hands write(2) all 15 and
\* asks for the maximum only; every call is accepted as asked and the slice
\* has gone out whole
C15_Witness ==
    \E ti \in SinkCalls :
        LET cs == CallsOf(ti[1], ti[2])
        IN /\ platform = "windows"
           /\ Returned(ti)
           /\ Len(sinks[ti[1]][ti[2]].msg) = 15
           /\ Len(cs) > 1
           /\ Len(cs[1].buf) = 15
           /\ cs[1].count = C_UINT_MAX
           /\ AcceptedAsAsked(cs)
           /\ Accepted(cs) = sinks[ti[1]][ti[2]].msg

-----------------------------------------------------------------------------
(* The cursor.                                                             *)

\* the cursor before the j-th write(2) call of a sequence
CursorAt(cs, j) == AcceptedCount(SubSeq(cs, 1, j - 1))

\* C18: while every result of write(2) is at most the count requested, the
\* cursor of the loop is within 0..L; a result above the count requested
\* puts the cursor past L, and then that call is the last one of the sink
\* call: the loop test fails and the sink returns Ok. Every call was made
\* with the cursor below L, so no slice `written..` was out of range.
C18_CursorInRange ==
    \A ti \in SinkCalls :
        LET t == ti[1]
            cs == CallsOf(t, ti[2])
            m == sinks[t][ti[2]].msg
            last == ti[2] = Len(sinks[t])
        IN /\ \A j \in 1..Len(cs) :
                /\ CursorAt(cs, j) < Len(m)
                /\ cs[j].ret > cs[j].count => j = Len(cs)
           /\ (last /\ \A j \in 1..Len(cs) : cs[j].ret <= cs[j].count) =>
                /\ 0 <= written[t]
                /\ written[t] <= Len(m)
           /\ (last /\ pc[t] = "loop" /\ \E j \in 1..Len(cs) : cs[j].ret > cs[j].count) =>
                /\ written[t] > Len(m)
                /\ ~LoopCond(written[t], m)
           /\ Returned(ti) => sinks[t][ti[2]].res = "Ok"

\* a sink call that returned after write(2) reported more than it was asked
\* in its first call: the cursor went past the length, no second call
C18_Witness ==
    \E ti \in SinkCalls :
        LET cs == CallsOf(ti[1], ti[2])
        IN /\ Returned(ti)
           /\ ti[2] = Len(sinks[ti[1]])
           /\ Len(cs) = 1
           /\ cs[1].ret > cs[1].count
           /\ written[ti[1]] > Len(sinks[ti[1]][ti[2]].msg)
           /\ Len(sinks[ti[1]][ti[2]].msg) > 1

-----------------------------------------------------------------------------
(* Two callers on one stream.                                              *)

\* the bytes descriptor fd accepted from the i-th sink call of thread t, in
\* stream order
StreamOfCall(t, i, fd) ==
    Bytes(SelectSeq(stream[fd], LAMBDA x : x.by = t /\ x.inv = i))

\* the bytes descriptor fd accepted, by the log of the write(2) calls
AcceptedOn(fd) == Accepted(SelectSeq(oscalls, LAMBDA c : c.fd = fd))

\* C12: with two callers on the output stream each caller's sequence of
\* write(2) calls is the one it makes alone under the results it got: it
\* depends on its own slice and results only. Nothing makes a caller wait:
\* a caller with bytes left can issue its next call whatever the other is
\* doing, and the stream holds the accepted bytes in the order of the calls,
\* not of the callers.
C12_CallersIndependent ==
    /\ \A t \in Threads :
        /\ call[t].shape \in StrShapes =>
            SameAsFastPath(t, 1, call[t].s, HasNl(call[t].shape))
        /\ call[t].shape \in FmtShapes =>
            SameAsFastPath(t, 1, call[t].tpl, HasNl(call[t].shape))
        /\ (pc[t] = "loop" /\ LoopCond(written[t], msg[t])) => ENABLED SinkWrite(t)
    /\ Bytes(stream[1]) = AcceptedOn(1)

\* two finished callers, every write(2) call accepted whole, and a byte of
\* one between the other's message and its newline
C12_Witness ==
    \E t \in Threads, u \in Threads :
        /\ t # u
        /\ pc[t] = "done"
        /\ pc[u] = "done"
        /\ HasNl(call[t].shape)
        /\ AllAccepted(t)
        /\ AllAccepted(u)
        /\ \E i \in 1..(Len(stream[1]) - 2) :
            /\ stream[1][i].by = t
            /\ stream[1][i].inv < Len(sinks[t])
            /\ stream[1][i + 1].by = u
            /\ stream[1][i + 2].by = t
            /\ stream[1][i + 2].inv = Len(sinks[t])
            /\ stream[1][i + 2].b = "\n"

\* C19: however the two callers interleave, the bytes the stream accepted
\* from one sink call are, in stream order, a prefix of that call's slice:
\* its first K bytes, K being the sum of the counts its write(2) calls
\* accepted; nothing is reordered, repeated or left out before K.
C19_AcceptedIsPrefix ==
    \A ti \in SinkCalls :
        LET cs == CallsOf(ti[1], ti[2])
            m == sinks[ti[1]][ti[2]].msg
            fd == sinks[ti[1]][ti[2]].fd
        IN /\ AcceptedCount(cs) <= Len(m)
           /\ StreamOfCall(ti[1], ti[2], fd) = SubSeq(m, 1, AcceptedCount(cs))
           /\ \A g \in Fds \ {fd} : StreamOfCall(ti[1], ti[2], g) = <<>>

\* one slice "ab" accepted in two calls with a byte of the other caller
\* between its two bytes on the stream
C19_Witness ==
    \E ti \in SinkCalls :
        /\ sinks[ti[1]][ti[2]].msg = <<"a", "b">>
        /\ Len(CallsOf(ti[1], ti[2])) = 2
        /\ StreamOfCall(ti[1], ti[2], 1) = <<"a", "b">>
        /\ \E i \in 1..(Len(stream[1]) - 2) :
            /\ stream[1][i].by = ti[1]
            /\ stream[1][i].inv = ti[2]
            /\ stream[1][i].b = "a"
            /\ stream[1][i + 1].by # ti[1]
            /\ stream[1][i + 2].by = ti[1]
            /\ stream[1][i + 2].inv = ti[2]
            /\ stream[1][i + 2].b = "b"

====
